---- MODULE Spec2Model ----
(***************************************************************************)
(* Model of MI_Project.py: the multiplication game (GameState, the         *)
(* successor generator, the evaluator), the two searches (minimax and      *)
(* alpha_beta), computer_move, and the Tkinter GameGUI handlers.           *)
(*                                                                         *)
(* The specifications of the module:                                       *)
(*   Spec       the GUI: start/restart, human clicks, computer_turn timers *)
(*   SpecFn     is_terminal, evaluate, get_successors called on inputs     *)
(*   SpecSearch minimax, alpha_beta, computer_move, get_successors called  *)
(*              on inputs                                                  *)
(*   SpecPlay   arbitrary plays of the game through get_successors         *)
(*   SpecGame   the same plays, from the states a new game starts in       *)
(*   SpecRules  SpecFn and Spec side by side: the rules as searched and as *)
(*              played                                                     *)
(*   SpecCounter  repeated computer_move calls and the GUI side by side    *)
(*   SpecObj    the functions called on objects of a heap                  *)
(*   SpecMinimax  minimax called in maximizing and in minimizing mode      *)
(*   SpecTurn   searches from states where the computer is to move         *)
(*   SpecLive   Spec with every scheduled callback eventually firing       *)
(***************************************************************************)
EXTENDS Integers, Sequences, FiniteSets, TLC

----------------------------------------------------------------------------
(* Bounds of the model *)

\* searches are called with depth 0..MaxDepth
MaxDepth == 10
\* input states of SpecFn carry scores in -MaxScore..MaxScore
MaxScore == 1
\* at most MaxPending computer_turn callbacks are scheduled at once
MaxPending == 2
\* clicks on a state left at or past 1200 are followed up to MaxNumber
MaxNumber == 10000
\* a game on a number at or below 0 never ends: it is followed while the
\* number is at least -MaxBelow and the two scores add up to at least
\* -MaxEndless
MaxBelow == 1
MaxEndless == 1
\* what start_game reads from the Spinbox is any integer; the model starts
\* games at the integers from -MaxTypedBelow to MaxTypedSmall, which hold the
\* range 8..18 of the arrows, and at those within MaxTypedNear of 1200
MaxTypedBelow == 1
MaxTypedSmall == 20
MaxTypedNear == 1
\* repeated calls of computer_move use depth 0..MaxCallDepth
MaxCallDepth == 2

----------------------------------------------------------------------------
(* Program constants *)

HUMAN == 0
COMPUTER == 1
TERMINAL_LIMIT == 1200
WIN_SCORE == 999999
MIN_INITIAL == 8
MAX_INITIAL == 18
\* variant of GUI_DEPTH: half the depth
GUI_DEPTH_shallow == 10 \div 2

GUI_DEPTH == 10

\* variant of Multipliers: the list starts one too low
Multipliers_from_one == <<1, 2, 3>>

Multipliers == <<2, 3, 4>>

\* float('inf') and float('-inf'): greater / smaller than every integer a
\* search can return (|evaluate| <= WIN_SCORE whenever |score difference| is).
PosInf == 1000000000
NegInf == -PosInf
\* Python's None as the returned move
None == 0

Players == {HUMAN, COMPUTER}
Algorithms == {"Minimax", "Alpha-Beta"}

----------------------------------------------------------------------------
(* GameState and the game rules *)

GameState(current_number, human_score, computer_score, current_player) ==
    [current_number |-> current_number, human_score |-> human_score,
     computer_score |-> computer_score, current_player |-> current_player]

\* variant of is_terminal: a digit of the threshold dropped
is_terminal_early(state) == state.current_number >= TERMINAL_LIMIT \div 10

is_terminal(state) == state.current_number >= TERMINAL_LIMIT

\* variant of evaluate without the terminal sentinels
evaluate_no_sentinel(state) == state.computer_score - state.human_score

evaluate(state) ==
    IF is_terminal(state)
    THEN IF state.human_score > state.computer_score THEN -WIN_SCORE
         ELSE IF state.computer_score > state.human_score THEN WIN_SCORE
         ELSE 0
    ELSE state.computer_score - state.human_score

Other(player) == IF player = HUMAN THEN COMPUTER ELSE HUMAN

\* variant of child_scores: an even result costs the mover the point
child_scores_swapped(child, new_number) ==
    IF new_number % 2 = 0
    THEN IF child.current_player = HUMAN
         THEN [child EXCEPT !.human_score = @ - 1]
         ELSE [child EXCEPT !.computer_score = @ - 1]
    ELSE IF child.current_player = HUMAN
         THEN [child EXCEPT !.human_score = @ + 1]
         ELSE [child EXCEPT !.computer_score = @ + 1]

\* lines 72-84: the parity rule applied to the copy
child_scores(child, new_number) ==
    IF new_number % 2 = 0
    THEN IF child.current_player = HUMAN
         THEN [child EXCEPT !.computer_score = @ - 1]
         ELSE [child EXCEPT !.human_score = @ - 1]
    ELSE IF child.current_player = HUMAN
         THEN [child EXCEPT !.human_score = @ + 1]
         ELSE [child EXCEPT !.computer_score = @ + 1]

\* variant of child_turn: the turn still switches at exactly the threshold
child_turn_late(child, new_number) ==
    IF new_number <= TERMINAL_LIMIT
    THEN [child EXCEPT !.current_player = (IF @ = HUMAN THEN COMPUTER ELSE HUMAN)]
    ELSE child

\* lines 86-93: the turn switches only when the game goes on
child_turn(child, new_number) ==
    IF new_number < TERMINAL_LIMIT
    THEN [child EXCEPT !.current_player = Other(@)]
    ELSE child

\* variant of child_number: the multiplier added
child_number_added(state, multiplier) == state.current_number + multiplier

\* lines 68-70: copy, multiply
child_number(state, multiplier) == state.current_number * multiplier

\* one iteration of the loop of get_successors
make_child(state, multiplier) ==
    LET new_number == child_number(state, multiplier)
        child == [state EXCEPT !.current_number = new_number]
    IN  child_turn(child_scores(child, new_number), new_number)

\* line 95: the pair appended for the i-th multiplier of the list [2, 3, 4]
successor(state, i) == <<Multipliers[i], make_child(state, Multipliers[i])>>

\* variant of get_successors: the early return for a terminal state forgotten
get_successors_unguarded(state) ==
    <<successor(state, 1), successor(state, 2), successor(state, 3)>>

get_successors(state) ==
    IF is_terminal(state)
    THEN << >>
    ELSE <<successor(state, 1), successor(state, 2), successor(state, 3)>>

----------------------------------------------------------------------------
(* Minimax and Alpha-Beta.  A search returns <<value, move, nodes>>: the   *)
(* pair the Python function returns and the number of times it incremented *)
(* NODES_VISITED.                                                          *)

\* variant of base_case: the depth limit forgotten
base_case_terminal_only(state, depth) == is_terminal(state)

base_case(state, depth) == depth = 0 \/ is_terminal(state)

\* variant of best_init: the best value starts at 0
best_init_zero(maximizing_player) == IF maximizing_player THEN 0 ELSE 0

best_init(maximizing_player) == IF maximizing_player THEN NegInf ELSE PosInf

\* variant of improves: an equal value replaces the best so far as well
improves_or_equal(val, best_value, maximizing_player) ==
    IF maximizing_player THEN val >= best_value ELSE val <= best_value

\* lines 118/127 and 144/156: strict improvement replaces the best so far
improves(val, best_value, maximizing_player) ==
    IF maximizing_player THEN val > best_value ELSE val < best_value

\* variant of child_flag: the flag passed down as it is
child_flag_same(maximizing_player) == maximizing_player

\* lines 116/125 and 142/154: the recursive call gets False from a maximizing
\* node and True from a minimizing one
child_flag(maximizing_player) == ~maximizing_player

Max(a, b) == IF a >= b THEN a ELSE b
Min(a, b) == IF a <= b THEN a ELSE b

RECURSIVE minimax(_, _, _)

\* lines 117 / 126: what the recursive calls of the loop return, one per
\* successor, in the order of the list (none, or the three of get_successors)
minimax_children(succ, depth, maximizing_player) ==
    IF succ = << >>
    THEN << >>
    ELSE <<minimax(succ[1][2], depth - 1, child_flag(maximizing_player)),
           minimax(succ[2][2], depth - 1, child_flag(maximizing_player)),
           minimax(succ[3][2], depth - 1, child_flag(maximizing_player))>>

RECURSIVE minimax_loop(_, _, _, _, _, _, _)

\* the for loop of minimax from successor i on; vals[i] is what the call on
\* the i-th successor returned
minimax_loop(succ, vals, i, maximizing_player, best_value, best_move, nodes) ==
    IF i > Len(vals)
    THEN <<best_value, best_move, nodes>>
    ELSE IF improves(vals[i][1], best_value, maximizing_player)
         THEN minimax_loop(succ, vals, i + 1, maximizing_player,
                           vals[i][1], succ[i][1], nodes + vals[i][3])
         ELSE minimax_loop(succ, vals, i + 1, maximizing_player,
                           best_value, best_move, nodes + vals[i][3])

minimax(state, depth, maximizing_player) ==
    IF base_case(state, depth)
    THEN <<evaluate(state), None, 1>>
    ELSE LET succ == get_successors(state)
         IN  minimax_loop(succ, minimax_children(succ, depth, maximizing_player),
                          1, maximizing_player, best_init(maximizing_player), None, 1)

RECURSIVE minimax_calls(_, _, _)

\* the calls minimax(state, depth, maximizing_player) makes, itself included:
\* <<the (current_player, maximizing_player) of the calls on non-terminal
\* states, the number of calls>>.  alpha_beta makes a subset of these calls,
\* with the same flags.
minimax_calls(state, depth, maximizing_player) ==
    LET here == IF is_terminal(state)
                THEN {}
                ELSE {<<state.current_player, maximizing_player>>}
    IN  IF base_case(state, depth)
        THEN <<here, 1>>
        ELSE LET succ == get_successors(state)
                 flag == child_flag(maximizing_player)
                 a == minimax_calls(succ[1][2], depth - 1, flag)
                 b == minimax_calls(succ[2][2], depth - 1, flag)
                 c == minimax_calls(succ[3][2], depth - 1, flag)
             IN  <<here \cup a[1] \cup b[1] \cup c[1], 1 + a[2] + b[2] + c[2]>>

\* line 147 / 159: the window after a child
new_alpha(alpha, best_value, maximizing_player) ==
    IF maximizing_player THEN Max(alpha, best_value) ELSE alpha
new_beta(beta, best_value, maximizing_player) ==
    IF maximizing_player THEN beta ELSE Min(beta, best_value)

\* variant of cutoff: the minimizing test reversed
cutoff_flipped(alpha, beta, maximizing_player) ==
    IF maximizing_player THEN alpha >= beta ELSE beta >= alpha

\* line 148 / 160: the cut-off test
cutoff(alpha, beta, maximizing_player) ==
    IF maximizing_player THEN alpha >= beta ELSE beta <= alpha

RECURSIVE alpha_beta(_, _, _, _, _)

\* one iteration of the for loop of alpha_beta: r is what the recursive call
\* on the child of move returned; the nodes visited, the best value and move
\* and the window after it, and whether the loop breaks
alpha_beta_iteration(before, move, r, maximizing_player) ==
    LET better == improves(r[1], before.best_value, maximizing_player)
        bv == IF better THEN r[1] ELSE before.best_value
        a == new_alpha(before.alpha, bv, maximizing_player)
        b == new_beta(before.beta, bv, maximizing_player)
    IN  [nodes |-> before.nodes + r[3],
         best_value |-> bv,
         best_move |-> IF better THEN move ELSE before.best_move,
         alpha |-> a, beta |-> b,
         break |-> cutoff(a, b, maximizing_player)]

\* the recursive call of the loop on the pair (move, child), with the window
\* the iterations before it left
alpha_beta_child(before, pair, depth, maximizing_player) ==
    alpha_beta(pair[2], depth - 1, before.alpha, before.beta,
               child_flag(maximizing_player))

\* the for loop of alpha_beta over the successors (none, or the three of
\* get_successors): the state of the loop when it ends or breaks
alpha_beta_loop(succ, depth, alpha, beta, maximizing_player) ==
    LET start == [nodes |-> 1, best_value |-> best_init(maximizing_player),
                  best_move |-> None, alpha |-> alpha, beta |-> beta,
                  break |-> FALSE]
        first == alpha_beta_iteration(start, succ[1][1],
                     alpha_beta_child(start, succ[1], depth, maximizing_player),
                     maximizing_player)
        second == alpha_beta_iteration(first, succ[2][1],
                     alpha_beta_child(first, succ[2], depth, maximizing_player),
                     maximizing_player)
        third == alpha_beta_iteration(second, succ[3][1],
                     alpha_beta_child(second, succ[3], depth, maximizing_player),
                     maximizing_player)
    IN  IF succ = << >> THEN start
        ELSE IF first.break THEN first
        ELSE IF second.break THEN second
        ELSE third

alpha_beta(state, depth, alpha, beta, maximizing_player) ==
    IF base_case(state, depth)
    THEN <<evaluate(state), None, 1>>
    ELSE LET done == alpha_beta_loop(get_successors(state), depth, alpha, beta,
                                     maximizing_player)
         IN  <<done.best_value, done.best_move, done.nodes>>

\* computer_move: <<move, nodes>>
search(state, algorithm, depth) ==
    IF algorithm = "Minimax"
    THEN minimax(state, depth, TRUE)
    ELSE alpha_beta(state, depth, NegInf, PosInf, TRUE)

computer_move(state, algorithm, depth) == search(state, algorithm, depth)[2]

----------------------------------------------------------------------------
(* The same functions over objects.  A heap is a sequence of GameState     *)
(* objects and an object's identity is its index; an assignment to a field *)
(* writes to the heap, so every reference to that object sees it.  Each    *)
(* function returns the heap it leaves behind next to its Python result.   *)

\* repeated object-level searches use depth 0..MaxObjDepth
MaxObjDepth == 2

\* variant of copy: the same object returned (child = state)
copy_alias(heap, id) == <<heap, id>>

\* lines 20-26: GameState.copy builds a new object from the fields of self
copy(heap, id) == <<Append(heap, heap[id]), Len(heap) + 1>>

\* lines 68-95: one iteration of the loop of get_successors, on objects
successor_obj(heap, id, i) ==
    LET c == copy(heap, id)
        child == c[2]
        new_number == child_number(c[1][child], Multipliers[i])
        numbered == [c[1] EXCEPT ![child].current_number = new_number]
        scored == [numbered EXCEPT ![child] = child_scores(@, new_number)]
        turned == [scored EXCEPT ![child] = child_turn(@, new_number)]
    IN  <<turned, <<Multipliers[i], child>>>>

\* get_successors on the object id: <<heap, list of (multiplier, child id)>>
get_successors_obj(heap, id) ==
    IF is_terminal(heap[id])
    THEN <<heap, << >> >>
    ELSE LET a == successor_obj(heap, id, 1)
             b == successor_obj(a[1], id, 2)
             c == successor_obj(b[1], id, 3)
         IN  <<c[1], <<a[2], b[2], c[2]>> >>

RECURSIVE minimax_obj(_, _, _, _), minimax_obj_loop(_, _, _, _, _, _, _)

\* the for loop of minimax from successor i on: <<value, move, heap>>
minimax_obj_loop(heap, succ, i, depth, maximizing_player, best_value, best_move) ==
    IF i > Len(succ)
    THEN <<best_value, best_move, heap>>
    ELSE LET r == minimax_obj(heap, succ[i][2], depth - 1, child_flag(maximizing_player))
             better == improves(r[1], best_value, maximizing_player)
         IN  minimax_obj_loop(r[3], succ, i + 1, depth, maximizing_player,
                              IF better THEN r[1] ELSE best_value,
                              IF better THEN succ[i][1] ELSE best_move)

minimax_obj(heap, id, depth, maximizing_player) ==
    IF base_case(heap[id], depth)
    THEN <<evaluate(heap[id]), None, heap>>
    ELSE LET s == get_successors_obj(heap, id)
         IN  minimax_obj_loop(s[1], s[2], 1, depth, maximizing_player,
                              best_init(maximizing_player), None)

RECURSIVE alpha_beta_obj(_, _, _, _, _, _), alpha_beta_obj_loop(_, _, _, _, _, _, _, _, _)

\* the for loop of alpha_beta from successor i on: <<value, move, heap>>
alpha_beta_obj_loop(heap, succ, i, depth, alpha, beta, maximizing_player, best_value, best_move) ==
    IF i > Len(succ)
    THEN <<best_value, best_move, heap>>
    ELSE LET r == alpha_beta_obj(heap, succ[i][2], depth - 1, alpha, beta,
                                 child_flag(maximizing_player))
             better == improves(r[1], best_value, maximizing_player)
             bv == IF better THEN r[1] ELSE best_value
             bm == IF better THEN succ[i][1] ELSE best_move
             a == new_alpha(alpha, bv, maximizing_player)
             b == new_beta(beta, bv, maximizing_player)
         IN  IF cutoff(a, b, maximizing_player)
             THEN <<bv, bm, r[3]>>
             ELSE alpha_beta_obj_loop(r[3], succ, i + 1, depth, a, b,
                                      maximizing_player, bv, bm)

alpha_beta_obj(heap, id, depth, alpha, beta, maximizing_player) ==
    IF base_case(heap[id], depth)
    THEN <<evaluate(heap[id]), None, heap>>
    ELSE LET s == get_successors_obj(heap, id)
         IN  alpha_beta_obj_loop(s[1], s[2], 1, depth, alpha, beta,
                                 maximizing_player, best_init(maximizing_player), None)

\* computer_move on the object id: <<value, move, heap>>
computer_move_obj(heap, id, algorithm, depth) ==
    IF algorithm = "Minimax"
    THEN minimax_obj(heap, id, depth, TRUE)
    ELSE alpha_beta_obj(heap, id, depth, NegInf, PosInf, TRUE)

----------------------------------------------------------------------------
(* GameGUI *)

\* self.state = None before the first start_game; also "no input" for state
NoState == [none |-> TRUE]

\* lines 313-326 of apply_move: the parity rule applied to self.state
apply_scores(self_state, new_number) ==
    IF new_number % 2 = 0
    THEN IF self_state.current_player = HUMAN
         THEN [self_state EXCEPT !.computer_score = @ - 1]
         ELSE [self_state EXCEPT !.human_score = @ - 1]
    ELSE IF self_state.current_player = HUMAN
         THEN [self_state EXCEPT !.human_score = @ + 1]
         ELSE [self_state EXCEPT !.computer_score = @ + 1]

\* variant of apply_ends: a number of exactly 1200 does not end the game
apply_ends_strict(new_number) == new_number > TERMINAL_LIMIT

\* line 330: the game ends immediately
apply_ends(new_number) == new_number >= TERMINAL_LIMIT

\* lines 330-338 of apply_move: game over, or the turn switches
apply_turn(self_state, new_number) ==
    IF apply_ends(new_number)
    THEN self_state
    ELSE [self_state EXCEPT !.current_player = Other(@)]

\* int * None raises TypeError at line 313, before anything is assigned
apply_move_raises(multiplier) == multiplier = None

\* apply_move: the new self.state and self.game_over
apply_move(self_state, game_over, multiplier) ==
    LET new_number == self_state.current_number * multiplier
        scored == apply_scores(self_state, new_number)
        numbered == [scored EXCEPT !.current_number = new_number]
    IN  [state |-> apply_turn(numbered, new_number),
         game_over |-> IF apply_ends(new_number) THEN TRUE ELSE game_over]

----------------------------------------------------------------------------
(* State.                                                                  *)
(*   state          the GameState the functions are called on directly, or *)
(*                  the current state of a play; NoState when the GUI runs *)
(*   ret            the last direct call, what it returned and the value   *)
(*                  of NODES_VISITED when it was made                      *)
(*   self_state, game_over   GameGUI.state, GameGUI.game_over              *)
(*   pending        computer_turn callbacks scheduled by root.after        *)
(*   NODES_VISITED  the global counter                                     *)
(*   last           the last GUI callback handled and how it ended; when   *)
(*                  it applied a move, the move and self.state before it   *)
(*                  (and the algorithm, for computer_turn)                 *)

VARIABLES state, ret, self_state, game_over, pending, NODES_VISITED, last

vars == <<state, ret, self_state, game_over, pending, NODES_VISITED, last>>
gui_vars == <<self_state, game_over, pending, last>>
fn_vars == <<state, ret>>

Scores == (-MaxScore)..MaxScore
Depths == 0..MaxDepth
\* line 215: the arrows of the Spinbox move within from_..to
ArrowNumbers == MIN_INITIAL..MAX_INITIAL

\* integers typed into the entry of the Spinbox, which nothing validates and
\* which takes every integer, within the bounds MaxTypedBelow, MaxTypedSmall
\* and MaxTypedNear: numbers at and below 0 (the number never grows, the game
\* never ends), the numbers up to MaxTypedSmall (from 1 a game can last 11
\* moves) and the numbers around 1200, below it (one move ends the game) and
\* at and above it (the game starts ended)
TypedNumbers ==
    ((-MaxTypedBelow)..MaxTypedSmall)
    \cup ((TERMINAL_LIMIT - MaxTypedNear)..(TERMINAL_LIMIT + MaxTypedNear))

\* line 263: what self.initial_num.get() can return
InitialNumbers == ArrowNumbers \cup TypedNumbers

\* numbers around the threshold and around the last non-terminal parents
BoundaryNumbers ==
    {TERMINAL_LIMIT - 1, TERMINAL_LIMIT, TERMINAL_LIMIT + 1}
    \cup {(TERMINAL_LIMIT \div Multipliers[i]) - d : i \in 1..3, d \in 0..1}

InputNumbers == ArrowNumbers \cup BoundaryNumbers

InputStates ==
    {GameState(n, h, c, p) : n \in InputNumbers, h \in Scores, c \in Scores, p \in Players}

\* inputs of the searches: a search reads the scores through evaluate only
SearchInputs ==
    {GameState(n, h, 0, p) : n \in InputNumbers, h \in Scores, p \in Players}

NewGames == {GameState(n, 0, 0, p) : n \in InitialNumbers, p \in Players}

\* the states the model follows a game into
Followed(s) ==
    /\ s.current_number <= MaxNumber
    /\ s.current_number <= 0 =>
          /\ s.current_number >= -MaxBelow
          /\ s.human_score + s.computer_score >= -MaxEndless

NoCall == [op |-> "none"]
NoEvent == [handler |-> "none", outcome |-> "none"]

GuiIdle ==
    /\ self_state = NoState
    /\ game_over = FALSE
    /\ pending = 0
    /\ last = NoEvent

----------------------------------------------------------------------------
(* Direct calls of the functions *)

CallIsTerminal ==
    /\ ret' = [op |-> "is_terminal", result |-> is_terminal(state)]
    /\ UNCHANGED <<state, NODES_VISITED, gui_vars>>

CallEvaluate ==
    /\ ret' = [op |-> "evaluate", result |-> evaluate(state)]
    /\ UNCHANGED <<state, NODES_VISITED, gui_vars>>

CallGetSuccessors ==
    /\ ret' = [op |-> "get_successors", result |-> get_successors(state)]
    /\ UNCHANGED <<state, NODES_VISITED, gui_vars>>

\* GameGUI.apply_move called on the state, self.game_over being False
CallApplyMove(multiplier) ==
    /\ ret' = [op |-> "apply_move", move |-> multiplier,
               result |-> apply_move(state, FALSE, multiplier)]
    /\ UNCHANGED <<state, NODES_VISITED, gui_vars>>

CallMinimax(depth, maximizing_player) ==
    /\ \E r \in {minimax(state, depth, maximizing_player)} :
           /\ ret' = [op |-> "minimax", depth |-> depth,
                      maximizing |-> maximizing_player, result |-> <<r[1], r[2]>>,
                      visited_before |-> NODES_VISITED]
           /\ NODES_VISITED' = NODES_VISITED + r[3]
    /\ UNCHANGED <<state, gui_vars>>

CallAlphaBeta(depth) ==
    /\ \E r \in {alpha_beta(state, depth, NegInf, PosInf, TRUE)} :
           /\ ret' = [op |-> "alpha_beta", depth |-> depth, result |-> <<r[1], r[2]>>,
                      visited_before |-> NODES_VISITED]
           /\ NODES_VISITED' = NODES_VISITED + r[3]
    /\ UNCHANGED <<state, gui_vars>>

CallComputerMove(algorithm, depth) ==
    /\ \E r \in {search(state, algorithm, depth)} :
           /\ ret' = [op |-> "computer_move", algorithm |-> algorithm,
                      depth |-> depth, result |-> r[2],
                      visited_before |-> NODES_VISITED]
           /\ NODES_VISITED' = NODES_VISITED + r[3]
    /\ UNCHANGED <<state, gui_vars>>

\* one move of a play: the state becomes one of its successors
Play(i) ==
    /\ i \in 1..Len(get_successors(state))
    /\ Followed(get_successors(state)[i][2])
    /\ state' = get_successors(state)[i][2]
    /\ ret' = [op |-> "play", move |-> get_successors(state)[i][1], parent |-> state,
               plies |-> IF ret.op = "play" THEN ret.plies + 1 ELSE 1,
               start |-> IF ret.op = "play" THEN ret.start ELSE state.current_number]
    /\ UNCHANGED <<NODES_VISITED, gui_vars>>

InitFn == state \in InputStates /\ ret = NoCall /\ NODES_VISITED = 0 /\ GuiIdle
\* one call per input
NextFn ==
    \/ ret = NoCall /\ CallIsTerminal
    \/ ret = NoCall /\ CallEvaluate
    \/ ret = NoCall /\ CallGetSuccessors
SpecFn == InitFn /\ [][NextFn]_vars

InitSearch == state \in SearchInputs /\ ret = NoCall /\ NODES_VISITED = 0 /\ GuiIdle
\* one call per input
NextSearch ==
    \/ ret = NoCall /\ \E d \in Depths : CallMinimax(d, TRUE)
    \/ ret = NoCall /\ \E d \in Depths : CallAlphaBeta(d)
    \/ ret = NoCall /\ \E a \in Algorithms, d \in Depths : CallComputerMove(a, d)
    \/ ret = NoCall /\ CallGetSuccessors
SpecSearch == InitSearch /\ [][NextSearch]_vars

NextPlay == \E i \in 1..Len(Multipliers) : Play(i)
SpecPlay == InitFn /\ [][NextPlay]_vars /\ WF_vars(NextPlay)

InitGame == state \in NewGames /\ ret = NoCall /\ NODES_VISITED = 0 /\ GuiIdle
SpecGame == InitGame /\ [][NextPlay]_vars

----------------------------------------------------------------------------
(* The GUI callbacks *)

\* start_game with the values of the Spinbox and the "Who starts" menu
start_game(init_num, first_p) ==
    /\ first_p = COMPUTER => pending < MaxPending
    /\ NODES_VISITED' = 0
    /\ game_over' = FALSE
    /\ self_state' = GameState(init_num, 0, 0, first_p)
    /\ pending' = IF first_p = COMPUTER THEN pending + 1 ELSE pending
    /\ UNCHANGED fn_vars

\* start_game with text in the Spinbox that is not a number: lines 258-261
\* have reset the counter and game_over when initial_num.get() raises TclError
\* at line 263, and the handler ends there
start_game_raises ==
    /\ NODES_VISITED' = 0
    /\ game_over' = FALSE
    /\ UNCHANGED <<self_state, pending, fn_vars>>

StartGame ==
    \/ /\ \E init_num \in InitialNumbers, first_p \in Players :
             start_game(init_num, first_p)
       /\ last' = [handler |-> "start_game", outcome |-> "started"]
    \/ /\ start_game_raises
       /\ last' = [handler |-> "start_game", outcome |-> "raised"]

RestartGame ==
    \/ /\ \E init_num \in InitialNumbers, first_p \in Players :
             start_game(init_num, first_p)
       /\ last' = [handler |-> "restart_game", outcome |-> "started"]
    \/ /\ start_game_raises
       /\ last' = [handler |-> "restart_game", outcome |-> "raised"]

\* variant of user_schedules: the test made on the player who just moved
user_schedules_mover(over, current_player) == ~over /\ current_player = HUMAN

\* lines 286-287: after the human's move the computer's turn is scheduled
user_schedules(over, current_player) == ~over /\ current_player = COMPUTER

\* a click on x2, x3 or x4
user_move(multiplier) ==
    /\ IF ~game_over /\ self_state = NoState
       THEN \* None.current_player raises AttributeError
            /\ last' = [handler |-> "user_move", outcome |-> "raised"]
            /\ UNCHANGED <<self_state, game_over, pending>>
       ELSE IF game_over \/ self_state.current_player # HUMAN
       THEN /\ last' = [handler |-> "user_move", outcome |-> "ignored"]
            /\ UNCHANGED <<self_state, game_over, pending>>
       ELSE LET a == apply_move(self_state, game_over, multiplier)
                schedule == user_schedules(a.game_over, a.state.current_player)
            IN  /\ schedule => pending < MaxPending
                /\ Followed(a.state)
                /\ self_state' = a.state
                /\ game_over' = a.game_over
                /\ pending' = IF schedule THEN pending + 1 ELSE pending
                /\ last' = [handler |-> "user_move", outcome |-> "applied",
                            before |-> self_state, move |-> multiplier]
    /\ UNCHANGED <<NODES_VISITED, fn_vars>>

\* line 294: NODES_VISITED = 0 before computer_move is called
turn_reset(visited) == 0 * visited

\* line 290: the callback returns at once unless the computer is to move
computer_turn_returns(over, current_player) ==
    over \/ current_player # COMPUTER

\* a scheduled computer_turn callback fires, with the Algorithm menu's value
computer_turn(algorithm) ==
    /\ pending > 0
    /\ pending' = pending - 1
    /\ IF computer_turn_returns(game_over, self_state.current_player)
       THEN /\ last' = [handler |-> "computer_turn", outcome |-> "ignored"]
            /\ UNCHANGED <<self_state, game_over, NODES_VISITED>>
       ELSE \* line 297: the one call of computer_move, <<value, move, nodes>>
            \E r \in {search(self_state, algorithm, GUI_DEPTH)} :
                /\ NODES_VISITED' = turn_reset(NODES_VISITED) + r[3]
                /\ IF apply_move_raises(r[2])
                   THEN /\ last' = [handler |-> "computer_turn", outcome |-> "raised"]
                        /\ UNCHANGED <<self_state, game_over>>
                   ELSE LET a == apply_move(self_state, game_over, r[2])
                        IN  /\ self_state' = a.state
                            /\ game_over' = a.game_over
                            /\ last' = [handler |-> "computer_turn",
                                        outcome |-> "applied",
                                        before |-> self_state, move |-> r[2],
                                        algorithm |-> algorithm]
    /\ UNCHANGED fn_vars

UserMove == \E i \in 1..Len(Multipliers) : user_move(Multipliers[i])
ComputerTurn == \E algorithm \in Algorithms : computer_turn(algorithm)

Init == state = NoState /\ ret = NoCall /\ NODES_VISITED = 0 /\ GuiIdle
Next == StartGame \/ RestartGame \/ UserMove \/ ComputerTurn
Spec == Init /\ [][Next]_vars

\* Tk's event loop runs every callback scheduled with root.after.  The steps
\* of Next that take one from pending are those of ComputerTurn, which is
\* enabled exactly when pending > 0, so this is weak fairness of ComputerTurn.
CallbackFires == pending > 0 /\ pending' = pending - 1
SpecLive == Init /\ [][Next]_vars /\ WF_pending(CallbackFires)

\* either the functions are called on an input, or the GUI runs
InitRules == InitFn \/ Init
NextRules ==
    \/ state # NoState /\ ret = NoCall /\ CallIsTerminal
    \/ state # NoState /\ ret = NoCall /\ CallEvaluate
    \/ state # NoState /\ ret = NoCall /\ CallGetSuccessors
    \/ /\ state # NoState /\ ret = NoCall
       /\ \E i \in 1..Len(Multipliers) : CallApplyMove(Multipliers[i])
    \/ state = NoState /\ StartGame
    \/ state = NoState /\ RestartGame
    \/ state = NoState /\ UserMove
    \/ state = NoState /\ ComputerTurn
SpecRules == InitRules /\ [][NextRules]_vars

\* the functions called on the object 1 of a heap that holds only the input
CallGetSuccessorsObj ==
    /\ \E r \in {get_successors_obj(<<state>>, 1)} :
           ret' = [op |-> "get_successors_obj", heap |-> r[1], result |-> r[2]]
    /\ UNCHANGED <<state, gui_vars, NODES_VISITED>>

CallMinimaxObj(depth) ==
    /\ \E r \in {minimax_obj(<<state>>, 1, depth, TRUE)} :
           ret' = [op |-> "minimax_obj", depth |-> depth, heap |-> r[3],
                   result |-> <<r[1], r[2]>>]
    /\ NODES_VISITED' = NODES_VISITED + minimax(state, depth, TRUE)[3]
    /\ UNCHANGED <<state, gui_vars>>

CallAlphaBetaObj(depth) ==
    /\ \E r \in {alpha_beta_obj(<<state>>, 1, depth, NegInf, PosInf, TRUE)} :
           ret' = [op |-> "alpha_beta_obj", depth |-> depth, heap |-> r[3],
                   result |-> <<r[1], r[2]>>]
    /\ NODES_VISITED' = NODES_VISITED + alpha_beta(state, depth, NegInf, PosInf, TRUE)[3]
    /\ UNCHANGED <<state, gui_vars>>

CallComputerMoveObj(algorithm, depth) ==
    /\ \E r \in {computer_move_obj(<<state>>, 1, algorithm, depth)} :
           ret' = [op |-> "computer_move_obj", algorithm |-> algorithm,
                   depth |-> depth, heap |-> r[3], result |-> r[2]]
    /\ NODES_VISITED' = NODES_VISITED + search(state, algorithm, depth)[3]
    /\ UNCHANGED <<state, gui_vars>>

NextObj ==
    \/ ret = NoCall /\ CallGetSuccessorsObj
    \/ ret = NoCall /\ \E d \in 0..MaxObjDepth : CallMinimaxObj(d)
    \/ ret = NoCall /\ \E d \in 0..MaxObjDepth : CallAlphaBetaObj(d)
    \/ ret = NoCall /\ \E a \in Algorithms, d \in 0..MaxObjDepth : CallComputerMoveObj(a, d)
SpecObj == InitFn /\ [][NextObj]_vars

\* searches started for the computer's turn
InitTurn == InitSearch /\ state.current_player = COMPUTER
NextTurn ==
    \/ ret = NoCall /\ \E d \in Depths : CallMinimax(d, TRUE)
    \/ ret = NoCall /\ \E d \in Depths : CallAlphaBeta(d)
    \/ ret = NoCall /\ \E a \in Algorithms, d \in Depths : CallComputerMove(a, d)
SpecTurn == InitTurn /\ [][NextTurn]_vars

\* minimax called as a maximizing and as a minimizing node
NextMinimax == ret = NoCall /\ \E d \in Depths, m \in BOOLEAN : CallMinimax(d, m)
SpecMinimax == InitSearch /\ [][NextMinimax]_vars

\* computer_move called up to twice in a row on an input, or the GUI runs
InitCounter == InitSearch \/ Init
NextCounter ==
    \/ /\ state # NoState
       /\ ret.op = "none" \/ (ret.op = "computer_move" /\ ret.visited_before = 0)
       /\ \E a \in Algorithms, d \in 0..MaxCallDepth : CallComputerMove(a, d)
    \/ state = NoState /\ StartGame
    \/ state = NoState /\ RestartGame
    \/ state = NoState /\ UserMove
    \/ state = NoState /\ ComputerTurn
SpecCounter == InitCounter /\ [][NextCounter]_vars

----------------------------------------------------------------------------
(* Properties *)

score(s, player) == IF player = HUMAN THEN s.human_score ELSE s.computer_score

\* the parity rule, as a relation between a state, a move and the state after
ParityRule(parent, move, after) ==
    LET mover == parent.current_player
        opponent == IF mover = HUMAN THEN COMPUTER ELSE HUMAN
    IN  IF (parent.current_number * move) % 2 = 0
        THEN /\ score(after, opponent) = score(parent, opponent) - 1
             /\ score(after, mover) = score(parent, mover)
        ELSE /\ score(after, mover) = score(parent, mover) + 1
             /\ score(after, opponent) = score(parent, opponent)

\* the turn rule, as a relation between a state, a move and the state after
TurnRule(parent, move, after) ==
    LET mover == parent.current_player
        opponent == IF mover = HUMAN THEN COMPUTER ELSE HUMAN
    IN  /\ (after.current_player = opponent) <=> (parent.current_number * move < 1200)
        /\ (after.current_player = mover) <=> (parent.current_number * move >= 1200)
        /\ (after.current_number >= 1200) <=> (parent.current_number * move >= 1200)

GuiApplied == last.outcome = "applied"

\* C1: alpha_beta(state, depth, -inf, +inf, True) and minimax(state, depth,
\* True) return the same score and the same move, for every state and depth.
C1_AlphaBetaEqualsMinimax ==
    /\ ret.op = "minimax" =>
          LET r == alpha_beta(state, ret.depth, NegInf, PosInf, TRUE)
          IN  ret.result = <<r[1], r[2]>>
    /\ ret.op = "alpha_beta" =>
          LET r == minimax(state, ret.depth, TRUE)
          IN  ret.result = <<r[1], r[2]>>

\* alpha_beta returned a move after visiting fewer nodes than minimax visits
C1_Witness ==
    /\ ret.op = "alpha_beta"
    /\ ret.depth >= 3
    /\ ret.result[2] \in {3, 4}
    /\ NODES_VISITED < minimax(state, ret.depth, TRUE)[3]

\* C2: for a non-terminal state get_successors returns exactly 3 pairs, the
\* moves 2, 3 and 4 once each, each child's number the parent's times its move.
C2_ThreeSuccessors ==
    (ret.op = "get_successors" /\ state.current_number < 1200) =>
        /\ Len(ret.result) = 3
        /\ \A m \in {2, 3, 4} :
              Cardinality({i \in 1..Len(ret.result) : ret.result[i][1] = m}) = 1
        /\ \A i \in 1..Len(ret.result) :
              ret.result[i][2].current_number = state.current_number * ret.result[i][1]

C2_Witness ==
    /\ ret.op = "get_successors"
    /\ state.current_number = 18
    /\ Len(ret.result) = 3
    /\ ret.result[3][2].current_number = 72

\* C3: in every transition (each child of get_successors, each GUI
\* apply_move) an even new number costs the mover's opponent 1 point and leaves
\* the mover's score, an odd one gives the mover 1 point and leaves the
\* opponent's: exactly one score changes, by exactly 1.  It holds of
\* get_successors and of apply_move on every input state and multiplier, and
\* of every move a handler of the GUI applies in a game.
C3_ParityRule ==
    /\ ret.op = "get_successors" =>
          \A i \in 1..Len(ret.result) :
              ParityRule(state, ret.result[i][1], ret.result[i][2])
    /\ ret.op = "apply_move" => ParityRule(state, ret.move, ret.result.state)
    /\ GuiApplied => ParityRule(last.before, last.move, self_state)

\* the GUI applied an odd result: 9 * 3 = 27, the mover gained a point
C3_Witness ==
    /\ GuiApplied
    /\ (last.before.current_number * last.move) % 2 = 1
    /\ score(self_state, last.before.current_player)
          = score(last.before, last.before.current_player) + 1

\* C4: in every transition from a non-terminal state current_player flips
\* iff the new number is < 1200; at >= 1200 the result is terminal (game_over
\* in the GUI) and current_player stays the mover.  It holds of get_successors
\* and of apply_move on every non-terminal input state and multiplier, and of
\* every move a handler of the GUI applies in a game.
C4_TurnRule ==
    /\ ret.op = "get_successors" =>
          \A i \in 1..Len(ret.result) :
              TurnRule(state, ret.result[i][1], ret.result[i][2])
    /\ (ret.op = "apply_move" /\ state.current_number < 1200) =>
          /\ TurnRule(state, ret.move, ret.result.state)
          /\ ret.result.game_over <=> (state.current_number * ret.move >= 1200)
    /\ GuiApplied =>
          /\ TurnRule(last.before, last.move, self_state)
          /\ game_over <=> (last.before.current_number * last.move >= 1200)

\* 600 * 2 = 1200: terminal, and the turn did not switch
C4_Witness ==
    /\ ret.op = "get_successors"
    /\ state.current_number = 600
    /\ ret.result[1][2].current_number = 1200
    /\ ret.result[1][2].current_player = state.current_player

\* C5: a state is terminal exactly when current_number >= 1200; get_successors
\* returns the empty list for a terminal state, and the GUI applies no move,
\* human or computer, once the state is terminal.
C5_TerminalIsFinal ==
    /\ ret.op = "is_terminal" => (ret.result <=> (state.current_number >= 1200))
    /\ (ret.op = "get_successors" /\ state.current_number >= 1200) => ret.result = << >>
    /\ (ret.op = "get_successors" /\ state.current_number < 1200) => ret.result # << >>
    /\ GuiApplied => last.before.current_number < 1200

\* C6: from a state with a positive number every transition strictly increases
\* current_number, so the numbers of a play are strictly increasing.
C6_NumberIncreases ==
    (ret.op = "play" /\ ret.parent.current_number > 0) =>
        state.current_number > ret.parent.current_number

C6_Witness ==
    /\ ret.op = "play"
    /\ ret.parent.current_number > 18
    /\ ret.parent.current_number < 299
    /\ state.current_number = 2 * ret.parent.current_number

\* C7: from every state with a positive number every sequence of legal
\* transitions reaches a terminal state after finitely many moves.
C7_PlayTerminates == <>(state.current_number >= 1200)

\* a play of eight moves ended: 8 * 2^8 = 2048
C7_Witness ==
    /\ ret.op = "play"
    /\ state.current_number = 2048
    /\ get_successors(state) = << >>

\* the number a play started from
StartNumber == IF ret.op = "play" THEN ret.start ELSE state.current_number

\* the play is one of a new game started with the arrows of the Spinbox
FromArrows == StartNumber \in MIN_INITIAL..MAX_INITIAL

\* C8: in every state reachable from a new game (initial number in 8..18,
\* both scores 0) the non-terminal evaluation lies strictly between -999999
\* and 999999, the values of a terminal loss and of a terminal win.
C8_TerminalDominance ==
    FromArrows =>
        /\ state.current_number < 1200 =>
              /\ evaluate(state) = state.computer_score - state.human_score
              /\ -999999 < evaluate(state)
              /\ evaluate(state) < 999999
        /\ (state.current_number >= 1200 /\ state.computer_score > state.human_score) =>
              evaluate(state) = 999999
        /\ (state.current_number >= 1200 /\ state.human_score > state.computer_score) =>
              evaluate(state) = -999999

\* a play from a new game ended in a win of the computer, from a parent
\* whose evaluation was 0
C8_Witness ==
    /\ ret.op = "play"
    /\ FromArrows
    /\ state.current_number >= 1200
    /\ evaluate(state) = 999999
    /\ ret.parent.current_number < 1200
    /\ evaluate(ret.parent) = 0

\* C9: with depth = 0 minimax and alpha_beta return (evaluate(state), None),
\* having visited the one node and no successor.
C9_DepthZero ==
    (ret.op \in {"minimax", "alpha_beta"} /\ ret.depth = 0) =>
        /\ ret.result = <<evaluate(state), None>>
        /\ NODES_VISITED = 1

C9_Witness ==
    /\ ret.op = "alpha_beta"
    /\ ret.depth = 0
    /\ state.current_number < 1200
    /\ ret.result = <<1, None>>

\* C10: for a non-terminal root and depth >= 1 computer_move returns a
\* multiplier in {2, 3, 4}, never None, with either algorithm.
C10_MoveReturned ==
    (ret.op = "computer_move" /\ state.current_number < 1200 /\ ret.depth >= 1) =>
        ret.result \in {2, 3, 4}

C10_Witness ==
    /\ ret.op = "computer_move"
    /\ ret.algorithm = "Alpha-Beta"
    /\ ret.depth = 1
    /\ state.current_number = 599
    /\ ret.result = 2

\* C11: on an already-terminal state get_successors returns the empty list
\* and computer_move returns None, for either algorithm and any depth.
C11_TerminalCallsReturnNothing ==
    /\ (ret.op = "get_successors" /\ state.current_number >= 1200) => ret.result = << >>
    /\ (ret.op = "computer_move" /\ state.current_number >= 1200) => ret.result = None

\* computer_move with Alpha-Beta and depth 10 on a state at 1201 returned None
C11_Witness ==
    /\ ret.op = "computer_move"
    /\ ret.algorithm = "Alpha-Beta"
    /\ ret.depth = 10
    /\ state.current_number = 1201
    /\ ret.result = None

\* the number of nodes of the game tree below a state, cut at a depth
RECURSIVE TreeSize(_, _)
TreeSize(s, depth) ==
    IF depth = 0 \/ s.current_number >= 1200
    THEN 1
    ELSE 1 + TreeSize([s EXCEPT !.current_number = @ * 2], depth - 1)
           + TreeSize([s EXCEPT !.current_number = @ * 3], depth - 1)
           + TreeSize([s EXCEPT !.current_number = @ * 4], depth - 1)

ComputerApplied == last.handler = "computer_turn" /\ last.outcome = "applied"

\* C12: NODES_VISITED is reset to zero at the start of each call of
\* computer_move and incremented once per invocation of minimax/alpha_beta,
\* base cases included, so after any sequence of calls of computer_move it is
\* the number of search invocations of the most recent call alone.
C12_ResetByComputerMove ==
    ret.op = "computer_move" =>
        /\ NODES_VISITED = search(state, ret.algorithm, ret.depth)[3]
        /\ ret.algorithm = "Minimax" => NODES_VISITED = TreeSize(state, ret.depth)

\* the objects a call created: every object of the heap but the input
Created == 2..Len(ret.heap)
ObjCall == ret.op \in {"get_successors_obj", "minimax_obj", "alpha_beta_obj",
                       "computer_move_obj"}

\* C13: get_successors, minimax, alpha_beta and computer_move leave the state
\* passed to them unchanged (all four fields), the three children of one
\* parent are distinct objects, none of them the parent, and each holds what
\* its own move made of the parent, so no update of one reached another; the
\* searches return what they return on values.
C13_InputUntouched ==
    /\ ObjCall => ret.heap[1] = state
    /\ ret.op = "get_successors_obj" =>
          /\ Len(ret.result) = Len(get_successors(state))
          /\ \A i \in 1..Len(ret.result) :
                /\ ret.result[i][2] \in Created
                /\ ret.heap[ret.result[i][2]] = get_successors(state)[i][2]
                /\ \A j \in 1..Len(ret.result) :
                      i # j => ret.result[i][2] # ret.result[j][2]
    /\ ret.op = "minimax_obj" =>
          ret.result = <<minimax(state, ret.depth, TRUE)[1],
                         minimax(state, ret.depth, TRUE)[2]>>
    /\ ret.op = "alpha_beta_obj" =>
          ret.result = <<alpha_beta(state, ret.depth, NegInf, PosInf, TRUE)[1],
                         alpha_beta(state, ret.depth, NegInf, PosInf, TRUE)[2]>>
    /\ ret.op = "computer_move_obj" =>
          ret.result = computer_move(state, ret.algorithm, ret.depth)

\* a depth-2 Minimax move selection built all 12 nodes below its input, whose
\* fields are still those passed in
C13_Witness ==
    /\ ret.op = "computer_move_obj"
    /\ ret.algorithm = "Minimax"
    /\ ret.depth = 2
    /\ Len(ret.heap) = 13
    /\ ret.heap[1] = state
    /\ state.current_number = 18

\* the child that get_successors pairs with the multiplier m
ChildFor(s, m) ==
    LET succ == get_successors(s)
        i == CHOOSE k \in 1..Len(succ) : succ[k][1] = m
    IN  succ[i][2]

\* C14: for every non-terminal state and every multiplier of 2, 3, 4,
\* GameGUI.apply_move yields the current_number, human_score, computer_score
\* and current_player of the child get_successors pairs with that
\* multiplier, both for the inputs and for every move applied in a game.
C14_PlayedAsSearched ==
    /\ (ret.op = "get_successors" /\ state.current_number < 1200) =>
          \A i \in 1..3 :
             /\ ret.result[i][1] = i + 1
             /\ apply_move(state, FALSE, i + 1).state = ret.result[i][2]
    /\ (GuiApplied /\ last.before.current_number < 1200) =>
          self_state = ChildFor(last.before, last.move)

\* the computer's x4 in a game passed 1200 and ended it with the turn not
\* switched, as in the child of the search
C14_Witness ==
    /\ last.handler = "computer_turn"
    /\ GuiApplied
    /\ last.move = 4
    /\ last.before.current_number * last.move > 1200
    /\ game_over
    /\ self_state = ChildFor(last.before, last.move)
    /\ self_state.current_player = last.before.current_player

\* the value minimax returns for the i-th child of the node of the last call
ChildValue(i) ==
    minimax(get_successors(state)[i][2], ret.depth - 1, ~ret.maximizing)[1]

\* C15: at a non-terminal node with depth >= 1, minimax in maximizing mode
\* returns the greatest child value with the first move in the order 2, 3, 4
\* that attains it, and in minimizing mode the smallest child value with the
\* first move that attains it.
C15_FirstBestMove ==
    (ret.op = "minimax" /\ ret.depth >= 1 /\ state.current_number < 1200) =>
        LET v1 == ChildValue(1)
            v2 == ChildValue(2)
            v3 == ChildValue(3)
            best == IF ret.maximizing
                    THEN Max(v1, Max(v2, v3))
                    ELSE Min(v1, Min(v2, v3))
            first == IF v1 = best THEN 2 ELSE IF v2 = best THEN 3 ELSE 4
        IN  /\ ret.result[1] = best
            /\ ret.result[2] = first

\* a minimizing call at depth 3 whose three children tie: it returned x2
C15_Witness ==
    /\ ret.op = "minimax"
    /\ ~ret.maximizing
    /\ ret.depth = 3
    /\ state.current_number < 100
    /\ ChildValue(1) = ChildValue(2)
    /\ ChildValue(2) = ChildValue(3)
    /\ ret.result[2] = 2

SearchCall == ret.op \in {"minimax", "alpha_beta", "computer_move"}

\* C16: in every search started for the computer's turn (root current_player
\* COMPUTER, maximizing True), at every non-terminal node visited the
\* maximizing flag is True exactly when the node's current_player is COMPUTER
\* and False exactly when it is HUMAN; the nodes are those the node counter
\* counted.
C16_FlagFollowsTurn ==
    SearchCall =>
        LET calls == minimax_calls(state, ret.depth, TRUE)
        IN  /\ calls[1] \subseteq {<<COMPUTER, TRUE>>, <<HUMAN, FALSE>>}
            /\ ret.op = "minimax" => NODES_VISITED = calls[2]
            /\ NODES_VISITED <= calls[2]

\* a depth-10 Alpha-Beta search from 8 with the computer to move visited
\* maximizing nodes of the computer and minimizing nodes of the human
C16_Witness ==
    /\ ret.op = "computer_move"
    /\ ret.algorithm = "Alpha-Beta"
    /\ ret.depth = 10
    /\ state.current_number = 8
    /\ state.current_player = COMPUTER
    /\ minimax_calls(state, 10, TRUE)[1] = {<<COMPUTER, TRUE>>, <<HUMAN, FALSE>>}

Started == last.outcome = "started"
HumanApplied == last.handler = "user_move" /\ last.outcome = "applied"

\* the game is over: the number has reached 1200 (update_display shows GAME
\* OVER) or game_over is set
GameIsOver ==
    /\ self_state # NoState
    /\ game_over \/ self_state.current_number >= 1200

MoveHandled == last'.handler \in {"user_move", "computer_turn"}

\* what one step of the GUI may do to the game
TurnsRespected ==
    /\ self_state' # self_state =>
          \/ last'.handler \in {"start_game", "restart_game"}
          \/ /\ HumanApplied'
             /\ self_state.current_player = HUMAN
             /\ last'.before = self_state
          \/ /\ ComputerApplied'
             /\ self_state.current_player = COMPUTER
             /\ last'.before = self_state
    /\ (pending' = pending - 1 /\ last'.outcome # "ignored") =>
          self_state.current_player = COMPUTER
    /\ (GameIsOver /\ MoveHandled) =>
          (self_state' = self_state /\ NODES_VISITED' = NODES_VISITED)
    /\ ComputerApplied' => (game_over' \/ self_state'.current_player = HUMAN)
    /\ (ComputerApplied /\ last'.handler = "computer_turn") =>
          (last'.outcome = "ignored" /\ self_state' = self_state)

\* C17: under any interleaving of Start/Restart clicks, human move clicks and
\* computer_turn callbacks, a human click changes the state only when
\* current_player is HUMAN, a callback searches and changes the state only
\* when current_player is COMPUTER, neither changes the state once the game
\* is over, and a callback that follows the computer's move does nothing.
C17_MovesByTurn == [][TurnsRespected]_vars

\* a started game that is not over, the number being below 1200, with the
\* computer to move
ComputerToMove ==
    /\ self_state # NoState
    /\ self_state.current_number < 1200
    /\ self_state.current_player = COMPUTER

\* C18: whenever a started game is not over and it is the computer's turn, at
\* least one computer_turn callback is pending, and, scheduled callbacks
\* eventually firing, the game does not stay waiting on the computer: the
\* turn is taken (or the game restarted), also with stale callbacks around.
C18_ComputerNeverStuck ==
    /\ [](ComputerToMove => (~game_over /\ pending >= 1))
    /\ ComputerToMove ~> ~ComputerToMove

\* a restart with the computer first left a stale callback next to its own
C18_Witness ==
    /\ last.handler = "restart_game"
    /\ ComputerToMove
    /\ pending = 2

\* the number of moves of the longest play from a state
RECURSIVE Height(_)
Height(s) ==
    IF s.current_number >= 1200
    THEN 0
    ELSE 1 + Max(Height([s EXCEPT !.current_number = @ * 2]),
                 Max(Height([s EXCEPT !.current_number = @ * 3]),
                     Height([s EXCEPT !.current_number = @ * 4])))

PliesPlayed == IF ret.op = "play" THEN ret.plies ELSE 0

\* C19: for every initial number in 8..18 every play ends within 8 moves, so
\* a search of the fixed depth 10 from any state reachable in a game never
\* stops at the depth limit: for both algorithms it returns the value and the
\* move, and visits the nodes, of a search whose depth never runs out.
C19_DepthNeverBinds ==
    FromArrows =>
        /\ PliesPlayed <= 8
        /\ PliesPlayed + Height(state) <= 8
        /\ Height(state) < 10
        /\ \A algorithm \in Algorithms :
              search(state, algorithm, GUI_DEPTH) = search(state, algorithm, TERMINAL_LIMIT)

\* the eighth move of a play from 8 ended it: 8 * 2^8 = 2048
C19_Witness ==
    /\ ret.op = "play"
    /\ ret.start = 8
    /\ ret.plies = 8
    /\ ret.parent.current_number = 1024
    /\ state.current_number = 2048
    /\ search(state, "Minimax", 10) = search(state, "Minimax", 1200)

\* C20: a human move click is handled without error in every reachable GUI
\* state, including before the first Start Game: it is either applied to the
\* current game or ignored, leaving the state unchanged.
C20_ClickNeverRaises ==
    last.handler = "user_move" =>
        /\ last.outcome \in {"applied", "ignored"}
        /\ self_state # NoState

====
